---------------------------- MODULE Spec2Model ----------------------------
(***************************************************************************)
(* State-machine model of diski (src/main.rs): a tray applet that tracks   *)
(* the sub-state of a systemd mount unit and its automount unit, and runs  *)
(* polkit-gated stop/start operations whose completion is correlated with  *)
(* the manager's JobRemoved signal (job_wait).                             *)
(*                                                                         *)
(* The process is one tokio current_thread task.  Every await of main and  *)
(* of job_wait is a position (pc, jw); everything between two awaits is    *)
(* one atomic action.  The service manager, the authority, the menu and    *)
(* the bus are the environment; their moves are separate actions.          *)
(***************************************************************************)
EXTENDS Integers, Sequences, FiniteSets, TLC

\* ------------------------------------------------------------------ bounds
\* Moves the environment makes of its own accord in one run: status changes
\* of the units, menu activations, JobRemoved signals of other units' jobs
\* and the loss of the bus.  (The manager's answers and the completion of
\* the jobs this process starts are not counted: the process bounds them.)
MaxEvents == 3

\* ----------------------------------------------------------------- domains
Units == {"mount", "automount"}

\* The variants of enum State.
States == {"Mounted", "Mounting", "Unmounting", "Dead", "Waiting", "Running", "Failed"}

\* What from_substates yields for a token no arm matches: the panic.
PANIC == "PANIC"

\* Sub-state tokens the manager may report; "bogus" and "Mounted" are tokens
\* outside the vocabulary of from_substates.
Tokens == {"mounted", "mounting-done", "mounting", "unmounting", "dead",
           "waiting", "running", "failed", "bogus", "Mounted"}

\* Tokens a unit may hold when the process starts.
InitTokens(u) == IF u = "mount" THEN {"dead", "mounted"} ELSE {"dead"}

\* Tokens the manager moves a unit to while the process runs.
ChangeTokens(u) ==
    IF u = "mount" THEN {"mounting-done", "dead", "bogus"}
    ELSE {"waiting", "dead"}

\* enum ClientRequests.
ClientRequests == {"PrepareDisconnect", "EnableAutomounting"}

\* The two job_wait futures an action can hold: 1 is the first arm of
\* try_join! (and the lone job_wait of EnableAutomounting), 2 the second arm.
Waiters == {1, 2}

\* The two process arguments.
systemd_name == "systemd_name"
display_name == "display_name"

\* Identifier of the k-th JobRemoved signal of somebody else's job.
NoiseJob(k) == 100 + k

VARIABLES
    \* --- service manager, bus, authority (environment)
    sub_state,               \* unit -> its current SubState token
    alive,                   \* the system bus connection is up
    next_job,                \* identifier the manager gives the next job
    running,                 \* jobs issued by this process and not yet removed
    moves,                   \* environment moves made so far
    noise,                   \* JobRemoved signals of other units' jobs so far
    \* --- main's locals
    pc,                      \* position of main
    mount_state,             \* memoized State of the mount unit
    automount_state,         \* memoized State of the automount unit
    tray,                    \* DiskTray: [mount, automount, display_name]
    events,                  \* the mpsc queue of ClientRequests
    mount_state_change,      \* notifications pending in the mount stream
    automount_state_change,  \* notifications pending in the automount stream
    req,                     \* the request being handled
    \* --- the job_wait futures
    jw,                      \* waiter -> position of that job_wait
    subscribed,              \* waiter -> its JobRemoved stream exists
    removed_stream,          \* waiter -> JobRemoved signals queued in its stream
    reply,                   \* waiter -> reply of the manager still in flight
    job,                     \* waiter -> job path acknowledged to it
    \* --- history (observations only, never read by an action's guard)
    hist,                    \* unit -> the tokens the unit has held, in order
    overrun,                 \* unit -> a change hit while a notification was unhandled
    updates,                 \* unit -> states pushed to the tray by handle.update
    sent,                    \* every request the menu enqueued, in order
    handled,                 \* every request dequeued: [req, auth]
    ops,                     \* start/stop calls accepted or rejected by the manager
    consumed,                \* waiter -> signals it took from its stream
    notices                  \* notifications shown: [summary, body, req, matched]

envVars  == <<sub_state, alive, next_job, running, moves, noise>>
mainVars == <<pc, mount_state, automount_state, tray, events,
              mount_state_change, automount_state_change, req>>
jwVars   == <<jw, subscribed, removed_stream, reply, job>>
histVars == <<hist, overrun, updates, sent, handled, ops, consumed,
              notices>>
vars     == <<envVars, mainVars, jwVars, histVars>>

\* ---------------------------------------------------------------- helpers
\* s with consecutive equal elements collapsed to one.
RECURSIVE Collapse(_)
Collapse(s) ==
    IF Len(s) <= 1 THEN s
    ELSE IF s[1] = s[2] THEN Collapse(Tail(s))
         ELSE <<s[1]>> \o Collapse(Tail(s))

\* ------------------------------------------------------------ State model
\* A from_substates that forgets the "mounting-done" alias.
from_substates_NoAlias(input) ==
    CASE input = "mounted"       -> "Mounted"
      [] input = "mounting"      -> "Mounting"
      [] input = "unmounting"    -> "Unmounting"
      [] input = "dead"          -> "Dead"
      [] input = "waiting"       -> "Waiting"
      [] input = "running"       -> "Running"
      [] input = "failed"        -> "Failed"
      [] OTHER                   -> PANIC

\* A from_substates whose last arm yields a state instead of panicking.
from_substates_Lenient(input) ==
    CASE input \in {"mounted", "mounting-done"} -> "Mounted"
      [] input = "mounting"      -> "Mounting"
      [] input = "unmounting"    -> "Unmounting"
      [] input = "dead"          -> "Dead"
      [] input = "waiting"       -> "Waiting"
      [] input = "running"       -> "Running"
      [] OTHER                   -> "Failed"

\* State::from_substates: the match on the token; the last arm panics.
from_substates(input) ==
    CASE input \in {"mounted", "mounting-done"} -> "Mounted"
      [] input = "mounting"      -> "Mounting"
      [] input = "unmounting"    -> "Unmounting"
      [] input = "dead"          -> "Dead"
      [] input = "waiting"       -> "Waiting"
      [] input = "running"       -> "Running"
      [] input = "failed"        -> "Failed"
      [] OTHER                   -> PANIC

\* ------------------------------------------------------------------- Init
\* main, lines 99-116, run to the top of the loop: both states classified
\* from the initial reads, the tray built from them, the channel empty, the
\* two change streams open and empty.
Booted ==
    /\ pc = "poll"
    /\ mount_state = from_substates(sub_state["mount"])
    /\ automount_state = from_substates(sub_state["automount"])
    /\ tray = [mount |-> mount_state, automount |-> automount_state,
               display_name |-> display_name]
    /\ events = <<>>
    /\ mount_state_change = 0
    /\ automount_state_change = 0
    /\ req = "none"

Idle ==
    /\ alive = TRUE
    /\ next_job = 1
    /\ running = {}
    /\ moves = 0
    /\ noise = 0
    /\ jw = [w \in Waiters |-> "none"]
    /\ subscribed = [w \in Waiters |-> FALSE]
    /\ removed_stream = [w \in Waiters |-> <<>>]
    /\ reply = [w \in Waiters |-> 0]
    /\ job = [w \in Waiters |-> 0]
    /\ hist = [u \in Units |-> <<sub_state[u]>>]
    /\ overrun = [u \in Units |-> FALSE]
    /\ updates = [u \in Units |-> <<>>]
    /\ sent = <<>>
    /\ handled = <<>>
    /\ ops = <<>>
    /\ consumed = [w \in Waiters |-> <<>>]
    /\ notices = <<>>

Init ==
    /\ sub_state \in {f \in [Units -> Tokens] : \A u \in Units : f[u] \in InitTokens(u)}
    /\ Booted
    /\ Idle

\* main has stopped: a panic (unwrap, from_substates) or an error returned by ?.
Stopped == pc \in {"panic", "error"}

\* ---------------------------------------------------------------- startup
\* main before line 99: nothing classified yet.
StartupInit ==
    /\ sub_state \in [Units -> Tokens]
    /\ pc = "read_mount"
    /\ mount_state = "unset"
    /\ automount_state = "unset"
    /\ tray = [mount |-> "unset", automount |-> "unset", display_name |-> display_name]
    /\ events = <<>>
    /\ mount_state_change = 0
    /\ automount_state_change = 0
    /\ req = "none"
    /\ Idle

\* Line 99: the initial read of the mount unit, classified.
ReadMount ==
    /\ pc = "read_mount"
    /\ LET new == from_substates(sub_state["mount"])
       IN IF new = PANIC
          THEN pc' = "panic" /\ UNCHANGED mount_state
          ELSE pc' = "read_automount" /\ mount_state' = new
    /\ UNCHANGED envVars
    /\ UNCHANGED <<automount_state, tray, events, mount_state_change,
                   automount_state_change, req>>
    /\ UNCHANGED jwVars
    /\ UNCHANGED <<hist, overrun, updates, sent, handled, ops, consumed, notices>>

\* Lines 100-116: the initial read of the automount unit, classified; the
\* tray is built from the two states and main enters the loop.
ReadAutomount ==
    /\ pc = "read_automount"
    /\ LET new == from_substates(sub_state["automount"])
       IN IF new = PANIC
          THEN pc' = "panic" /\ UNCHANGED <<automount_state, tray>>
          ELSE /\ pc' = "poll"
               /\ automount_state' = new
               /\ tray' = [mount |-> mount_state, automount |-> new,
                           display_name |-> display_name]
    /\ UNCHANGED envVars
    /\ UNCHANGED <<mount_state, events, mount_state_change,
                   automount_state_change, req>>
    /\ UNCHANGED jwVars
    /\ UNCHANGED <<hist, overrun, updates, sent, handled, ops, consumed, notices>>

Startup == ReadMount \/ ReadAutomount

\* The startup alone, from any pair of tokens.
StartupSpec == StartupInit /\ [][Startup]_vars

\* ------------------------------------------------------------ environment
\* The manager moves unit u to token t and the bus delivers the change
\* notification to u's stream.  t may equal the current token (a notification
\* that changes nothing).  The stream tells that the property changed, not
\* what it became, and may hold one notification for several changes.
StatusChange(u, t, merge) ==
    /\ ~Stopped /\ alive
    /\ moves < MaxEvents
    /\ moves' = moves + 1
    /\ sub_state' = [sub_state EXCEPT ![u] = t]
    /\ LET pending == IF u = "mount" THEN mount_state_change ELSE automount_state_change
           n == IF merge /\ pending > 0 THEN pending ELSE pending + 1
           unhandled == pending > 0 \/ pc = u \o "_get"
       IN /\ merge => pending > 0
          /\ mount_state_change' = IF u = "mount" THEN n ELSE mount_state_change
          /\ automount_state_change' =
                 IF u = "automount" THEN n ELSE automount_state_change
          /\ hist' = IF t = sub_state[u] THEN hist
                     ELSE [hist EXCEPT ![u] = Append(@, t)]
          /\ overrun' = IF t # sub_state[u] /\ unhandled
                        THEN [overrun EXCEPT ![u] = TRUE] ELSE overrun
    /\ UNCHANGED <<alive, next_job, running, noise>>
    /\ UNCHANGED <<pc, mount_state, automount_state, tray, events, req>>
    /\ UNCHANGED jwVars
    /\ UNCHANGED <<updates, sent, handled, ops, consumed, notices>>

\* DiskTray::menu, lines 57-72: an activated entry sends its request.
Activate(r) ==
    /\ ~Stopped
    /\ moves < MaxEvents
    /\ moves' = moves + 1
    /\ events' = Append(events, r)
    /\ sent' = Append(sent, r)
    /\ UNCHANGED <<sub_state, alive, next_job, running, noise>>
    /\ UNCHANGED <<pc, mount_state, automount_state, tray,
                   mount_state_change, automount_state_change, req>>
    /\ UNCHANGED jwVars
    /\ UNCHANGED <<hist, overrun, updates, handled, ops, consumed, notices>>

\* ------------------------------------------------------------- event loop
\* A change stream has something to yield: a notification, or its end.
Ready(pending) == pending > 0 \/ ~alive

\* A select! that looks at the request channel first.
Selected_EventsFirst ==
    IF events # <<>> THEN "events"
    ELSE IF Ready(mount_state_change) THEN "mount"
    ELSE IF Ready(automount_state_change) THEN "automount"
    ELSE "pending"

\* select! with biased (lines 119-137): the branch taken when main polls.
Selected ==
    IF Ready(mount_state_change) THEN "mount"
    ELSE IF Ready(automount_state_change) THEN "automount"
    ELSE IF events # <<>> THEN "events"
    ELSE "pending"

\* A tracker that pushes every classified state, changed or not.
Differs_Always(new, old) == TRUE

\* A tracker whose comparison is inverted: it writes only what it already holds.
Differs_Inverted(new, old) == new = old

\* Lines 124 and 132: new != mount_state, new != automount_state.
Differs(new, old) == new # old

\* A mount branch pasted from the automount branch without renaming the field.
SetMount_Pasted(t, new) == [t EXCEPT !.automount = new]

\* Line 126: handle.update(|t| t.mount = mount_state).
SetMount(t, new) == [t EXCEPT !.mount = new]

\* Line 134: handle.update(|t| t.automount = automount_state).
SetAutomount(t, new) == [t EXCEPT !.automount = new]

\* Line 121: mount_state_change.next() yields.
SelectMount ==
    /\ pc = "poll" /\ Selected = "mount"
    /\ IF mount_state_change > 0
       THEN /\ mount_state_change' = mount_state_change - 1
            /\ pc' = "mount_get"
       ELSE /\ pc' = "panic"
            /\ UNCHANGED mount_state_change
    /\ UNCHANGED envVars
    /\ UNCHANGED <<mount_state, automount_state, tray, events,
                   automount_state_change, req>>
    /\ UNCHANGED jwVars
    /\ UNCHANGED histVars

\* Lines 122-127: read the token, classify, update on a difference.
MountGet ==
    /\ pc = "mount_get"
    /\ LET token == sub_state["mount"]
           new == from_substates(token)
       IN IF new = PANIC
          THEN /\ pc' = "panic"
               /\ UNCHANGED <<mount_state, tray, updates>>
          ELSE /\ pc' = "poll"
               /\ IF Differs(new, mount_state)
                  THEN /\ mount_state' = new
                       /\ tray' = SetMount(tray, new)
                       /\ updates' = [updates EXCEPT !["mount"] = Append(@, new)]
                  ELSE UNCHANGED <<mount_state, tray, updates>>
    /\ UNCHANGED envVars
    /\ UNCHANGED <<automount_state, events, mount_state_change,
                   automount_state_change, req>>
    /\ UNCHANGED jwVars
    /\ UNCHANGED <<hist, overrun, sent, handled, ops, consumed, notices>>

\* Line 129: automount_state_change.next() yields.
SelectAutomount ==
    /\ pc = "poll" /\ Selected = "automount"
    /\ IF automount_state_change > 0
       THEN /\ automount_state_change' = automount_state_change - 1
            /\ pc' = "automount_get"
       ELSE /\ pc' = "panic"
            /\ UNCHANGED automount_state_change
    /\ UNCHANGED envVars
    /\ UNCHANGED <<mount_state, automount_state, tray, events,
                   mount_state_change, req>>
    /\ UNCHANGED jwVars
    /\ UNCHANGED histVars

\* Lines 130-135.
AutomountGet ==
    /\ pc = "automount_get"
    /\ LET token == sub_state["automount"]
           new == from_substates(token)
       IN IF new = PANIC
          THEN /\ pc' = "panic"
               /\ UNCHANGED <<automount_state, tray, updates>>
          ELSE /\ pc' = "poll"
               /\ IF Differs(new, automount_state)
                  THEN /\ automount_state' = new
                       /\ tray' = SetAutomount(tray, new)
                       /\ updates' = [updates EXCEPT !["automount"] = Append(@, new)]
                  ELSE UNCHANGED <<automount_state, tray, updates>>
    /\ UNCHANGED envVars
    /\ UNCHANGED <<mount_state, events, mount_state_change,
                   automount_state_change, req>>
    /\ UNCHANGED jwVars
    /\ UNCHANGED <<hist, overrun, sent, handled, ops, consumed, notices>>

\* A receiver that takes the newest request.
Recv_Newest(q) == [req |-> q[Len(q)], rest |-> SubSeq(q, 1, Len(q) - 1)]

\* mpsc recv() (line 137) on the channel of line 102: the oldest request,
\* and the queue without it.
Recv(q) == [req |-> Head(q), rest |-> Tail(q)]

\* Line 137: events.recv() yields.
SelectRequest ==
    /\ pc = "poll" /\ Selected = "events"
    /\ req' = Recv(events).req
    /\ events' = Recv(events).rest
    /\ pc' = "auth"
    /\ handled' = Append(handled, [req |-> Recv(events).req, auth |-> "asked"])
    /\ UNCHANGED envVars
    /\ UNCHANGED <<mount_state, automount_state, tray,
                   mount_state_change, automount_state_change>>
    /\ UNCHANGED jwVars
    /\ UNCHANGED <<hist, overrun, updates, sent, ops, consumed, notices>>

\* A PrepareDisconnect that stops and awaits the automount unit only.
Arms_FirstOnly(r) == {1}

\* The job_wait futures request r creates: both arms of try_join! (line 154)
\* or the one job_wait of line 166.
Arms(r) == IF r = "PrepareDisconnect" THEN {1, 2} ELSE {1}

\* The call handed to job_wait w as job_future (lines 155, 156, 166).
Call(r, w) ==
    IF r = "PrepareDisconnect"
    THEN IF w = 1 THEN [unit |-> "automount", verb |-> "stop"]
                  ELSE [unit |-> "mount", verb |-> "stop"]
    ELSE [unit |-> "automount", verb |-> "start"]

\* A job_wait that awaits job_future before it subscribes.
JobWaitEntry_CallFirst == "calling"

\* Where a job_wait future stands after its first poll: inside line 184,
\* awaiting receive_job_removed().  job_future, the async call built at
\* lines 155, 156 and 166, does nothing until line 186 awaits it.
JobWaitEntry == "subscribing"

\* A gate that lets a denied request through.
Denied_Never(result) == FALSE

\* Line 148: result.is_authorized.not().
Denied(result) == result = "no"

\* A check whose failure is taken for an answer.
AuthFailed_Unwrapped(result) == FALSE

\* Line 146: check_authorization(..).await? returns the call's error.
AuthFailed(result) == result = "error"

\* Lines 138-152: the authority answers.  An error returns from main through
\* ?, a denial continues the loop, an approval starts the action's job_wait
\* futures.
Authorize(result) ==
    /\ pc = "auth"
    /\ ~alive => result = "error"
    /\ handled' = [handled EXCEPT ![Len(handled)].auth = result]
    /\ IF AuthFailed(result) THEN pc' = "error" /\ UNCHANGED jw
       ELSE IF Denied(result) THEN pc' = "poll" /\ UNCHANGED jw
       ELSE /\ pc' = IF req = "PrepareDisconnect" THEN "join" ELSE "wait"
            /\ jw' = [w \in Waiters |->
                        IF w \in Arms(req) THEN JobWaitEntry ELSE "none"]
    /\ UNCHANGED envVars
    /\ UNCHANGED <<mount_state, automount_state, tray, events,
                   mount_state_change, automount_state_change, req>>
    /\ UNCHANGED <<subscribed, removed_stream, reply, job>>
    /\ UNCHANGED <<hist, overrun, updates, sent, ops, consumed, notices>>

\* ---------------------------------------------------------------- job_wait
\* Positions of a job_wait that is still being polled.
Pending == {"subscribing", "calling", "replying", "draining"}

\* A try_join! that is satisfied by one finished arm.
JoinDone_Any(jwn) == \E w \in Arms(req) : jwn[w] = "ok"

\* try_join! (lines 154-157) and the lone .await of line 166 complete with Ok
\* when every arm has returned Ok.
JoinDone(jwn) == \A w \in Arms(req) : jwn[w] = "ok"

\* A caller that drops the Result of the join instead of returning it.
Resume_Swallowed(jwn, sb, st) ==
    /\ pc' = IF JoinDone(jwn) THEN "notify" ELSE pc
    /\ jw' = jwn
    /\ subscribed' = sb
    /\ removed_stream' = st

\* A join that waits for every arm before it looks at the results.
Resume_AwaitAll(jwn, sb, st) ==
    LET settled == \A w \in Waiters : jwn[w] \notin Pending
        failed == \E w \in Waiters : jwn[w] = "err"
    IN /\ pc' = IF settled /\ failed THEN "error"
                ELSE IF JoinDone(jwn) THEN "notify" ELSE pc
       /\ jw' = jwn
       /\ subscribed' = IF settled /\ failed THEN [w \in Waiters |-> FALSE] ELSE sb
       /\ removed_stream' = IF settled /\ failed THEN [w \in Waiters |-> <<>>] ELSE st

\* main after a poll that left the job_wait futures at jwn with streams st and
\* subscriptions sb: an Err of any arm returns from main through ? at once and
\* drops the other arm; Ok of all arms moves on to the notification.
Resume(jwn, sb, st) ==
    LET failed == \E w \in Waiters : jwn[w] = "err"
    IN /\ pc' = IF failed THEN "error" ELSE IF JoinDone(jwn) THEN "notify" ELSE pc
       /\ jw' = IF failed
                THEN [w \in Waiters |-> IF jwn[w] \in Pending THEN "dropped" ELSE jwn[w]]
                ELSE jwn
       /\ subscribed' = IF failed THEN [w \in Waiters |-> FALSE] ELSE sb
       /\ removed_stream' = IF failed THEN [w \in Waiters |-> <<>>] ELSE st

\* Line 184: receive_job_removed() returns.  With the stream in hand the
\* future polls job_future for the first time, which sends the call (line 186).
Subscribed(w) ==
    /\ pc \in {"join", "wait"} /\ jw[w] = "subscribing"
    /\ IF alive
       THEN Resume([jw EXCEPT ![w] = "calling"],
                   [subscribed EXCEPT ![w] = TRUE],
                   [removed_stream EXCEPT ![w] = <<>>])
       ELSE Resume([jw EXCEPT ![w] = "err"], subscribed, removed_stream)
    /\ UNCHANGED envVars
    /\ UNCHANGED <<mount_state, automount_state, tray, events,
                   mount_state_change, automount_state_change, req>>
    /\ UNCHANGED <<reply, job>>
    /\ UNCHANGED histVars

\* The manager takes the start/stop call of job_wait w: it queues a job and
\* answers with its path, or refuses.  With the bus down the call fails.
Manager(w, accept) ==
    /\ pc \in {"join", "wait"} /\ jw[w] = "calling"
    /\ jw' = [jw EXCEPT ![w] = "replying"]
    /\ IF alive /\ accept
       THEN /\ reply' = [reply EXCEPT ![w] = next_job]
            /\ running' = running \cup {next_job}
            /\ next_job' = next_job + 1
            /\ ops' = Append(ops, [unit |-> Call(req, w).unit, verb |-> Call(req, w).verb,
                                   intent |-> Len(handled), job |-> next_job])
       ELSE /\ reply' = [reply EXCEPT ![w] = -1]
            /\ UNCHANGED <<running, next_job>>
            /\ ops' = IF alive
                      THEN Append(ops, [unit |-> Call(req, w).unit,
                                        verb |-> Call(req, w).verb,
                                        intent |-> Len(handled), job |-> -1])
                      ELSE ops
    /\ UNCHANGED <<sub_state, alive, moves, noise>>
    /\ UNCHANGED mainVars
    /\ UNCHANGED <<subscribed, removed_stream, job>>
    /\ UNCHANGED <<hist, overrun, updates, sent, handled, consumed, notices>>

\* Line 186: job_future resolves; ? returns the error of a refused call.
Acked(w) ==
    /\ pc \in {"join", "wait"} /\ jw[w] = "replying"
    /\ IF reply[w] > 0 /\ alive
       THEN /\ job' = [job EXCEPT ![w] = reply[w]]
            /\ Resume([jw EXCEPT ![w] = "draining"], subscribed, removed_stream)
       ELSE /\ UNCHANGED job
            /\ Resume([jw EXCEPT ![w] = "err"], subscribed, removed_stream)
    /\ UNCHANGED envVars
    /\ UNCHANGED <<mount_state, automount_state, tray, events,
                   mount_state_change, automount_state_change, req>>
    /\ UNCHANGED reply
    /\ UNCHANGED histVars

\* A job_wait that returns on the first signal, whatever its job.
IsOwn_Any(removed, j) == TRUE

\* Line 190: removed.args()?.job == job.
IsOwn(removed, j) == removed = j

\* Lines 189-192: take the next signal; return Ok if it is the own job's,
\* else loop.  The stream's end (None) panics in unwrap.
NextRemoved(w) ==
    /\ pc \in {"join", "wait"} /\ jw[w] = "draining"
    /\ IF removed_stream[w] # <<>>
       THEN LET removed == Head(removed_stream[w])
            IN /\ consumed' = [consumed EXCEPT ![w] = Append(@, removed)]
               /\ IF IsOwn(removed, job[w])
                  THEN Resume([jw EXCEPT ![w] = "ok"],
                              [subscribed EXCEPT ![w] = FALSE],
                              [removed_stream EXCEPT ![w] = <<>>])
                  ELSE Resume(jw, subscribed,
                              [removed_stream EXCEPT ![w] = Tail(@)])
       ELSE /\ ~alive
            /\ pc' = "panic"
            /\ jw' = [v \in Waiters |-> IF jw[v] \in Pending THEN "dropped" ELSE jw[v]]
            /\ subscribed' = [v \in Waiters |-> FALSE]
            /\ removed_stream' = [v \in Waiters |-> <<>>]
            /\ UNCHANGED consumed
    /\ UNCHANGED envVars
    /\ UNCHANGED <<mount_state, automount_state, tray, events,
                   mount_state_change, automount_state_change, req>>
    /\ UNCHANGED <<reply, job>>
    /\ UNCHANGED <<hist, overrun, updates, sent, handled, ops, notices>>

\* The signals job_wait w has taken end with its own job's.
Matched(w) == consumed[w] # <<>> /\ consumed[w][Len(consumed[w])] = job[w]

\* Lines 159-163 and 168-172: show the notification, then loop.
Notify(shown) ==
    /\ pc = "notify"
    /\ IF shown
       THEN /\ pc' = "poll"
            /\ notices' = Append(notices,
                   [summary |-> systemd_name,
                    body |-> IF req = "PrepareDisconnect"
                             THEN "Drive has been fully unmounted"
                             ELSE "Automounting has been enabled",
                    req |-> req,
                    matched |-> {w \in Waiters : Matched(w)}])
       ELSE /\ pc' = "error"
            /\ UNCHANGED notices
    /\ jw' = [w \in Waiters |-> "none"]
    /\ reply' = [w \in Waiters |-> 0]
    /\ job' = [w \in Waiters |-> 0]
    /\ consumed' = [w \in Waiters |-> <<>>]
    /\ UNCHANGED envVars
    /\ UNCHANGED <<mount_state, automount_state, tray, events,
                   mount_state_change, automount_state_change, req>>
    /\ UNCHANGED <<subscribed, removed_stream>>
    /\ UNCHANGED <<hist, overrun, updates, sent, handled, ops>>

\* ------------------------------------------------------- bus and manager
\* One stream shared by the job_wait futures: a signal is taken by one reader.
Deliver_Shared(id) ==
    removed_stream' = [w \in Waiters |->
        IF subscribed[w] /\ \A v \in Waiters : (subscribed[v] => w <= v)
        THEN Append(removed_stream[w], id) ELSE removed_stream[w]]

\* A JobRemoved signal for job id reaches every stream that exists.
Deliver(id) ==
    removed_stream' = [w \in Waiters |->
        IF subscribed[w] THEN Append(removed_stream[w], id) ELSE removed_stream[w]]

\* One of this process's jobs finishes: the manager emits JobRemoved for it.
JobRemoved(id) ==
    /\ ~Stopped /\ alive
    /\ id \in running
    /\ running' = running \ {id}
    /\ Deliver(id)
    /\ UNCHANGED <<sub_state, alive, next_job, moves, noise>>
    /\ UNCHANGED mainVars
    /\ UNCHANGED <<jw, subscribed, reply, job>>
    /\ UNCHANGED histVars

\* Somebody else's job finishes while a stream exists.
OtherJobRemoved ==
    /\ ~Stopped /\ alive
    /\ moves < MaxEvents
    /\ \E w \in Waiters : subscribed[w]
    /\ moves' = moves + 1
    /\ noise' = noise + 1
    /\ Deliver(NoiseJob(noise + 1))
    /\ UNCHANGED <<sub_state, alive, next_job, running>>
    /\ UNCHANGED mainVars
    /\ UNCHANGED <<jw, subscribed, reply, job>>
    /\ UNCHANGED histVars

\* The system bus connection closes: every stream ends after what it holds.
BusDown ==
    /\ ~Stopped /\ alive
    /\ moves < MaxEvents
    /\ moves' = moves + 1
    /\ alive' = FALSE
    /\ UNCHANGED <<sub_state, next_job, running, noise>>
    /\ UNCHANGED mainVars
    /\ UNCHANGED jwVars
    /\ UNCHANGED histVars

\* ------------------------------------------------------------------- Next
Env ==
    \/ \E u \in Units, merge \in BOOLEAN : \E t \in ChangeTokens(u) : StatusChange(u, t, merge)
    \/ \E r \in ClientRequests : Activate(r)
    \/ \E id \in running : JobRemoved(id)
    \/ OtherJobRemoved
    \/ BusDown
    \/ \E w \in Waiters, accept \in BOOLEAN : Manager(w, accept)

Loop ==
    \/ SelectMount
    \/ MountGet
    \/ SelectAutomount
    \/ AutomountGet
    \/ SelectRequest
    \/ \E result \in {"yes", "no", "error"} : Authorize(result)
    \/ \E shown \in BOOLEAN : Notify(shown)

JobWait(w) ==
    \/ Subscribed(w)
    \/ Acked(w)
    \/ NextRemoved(w)

Next == Env \/ Loop \/ \E w \in Waiters : JobWait(w)

Spec == Init /\ [][Next]_vars

\* The runtime polls a job_wait future whenever what it awaits is there.
FairSpec == Spec /\ \A w \in Waiters : WF_vars(JobWait(w))

\* ------------------------------------------------------------- properties
\* A job_wait whose call has left the process: sent, answered or acknowledged.
Issued(w) == jw[w] \in {"calling", "replying", "draining"}

\* The call of job_wait w was accepted and the JobRemoved signal of its job
\* has been emitted; job_wait has not returned.
Overdue(w) ==
    /\ jw[w] \in {"replying", "draining"}
    /\ reply[w] > 0
    /\ reply[w] \notin running

\* job_wait w was dropped unfinished because the other arm of try_join!
\* returned an error.
Abandoned(w) == jw[w] = "dropped" /\ \E v \in Waiters \ {w} : jw[v] = "err"

\* C1 as stated: whenever the call of a job_wait was accepted and the signal
\* of its job has been emitted, that job_wait eventually returns Ok (as long
\* as the bus connection lasts, which the design takes for granted).
C1_EventuallyOk_AsStated ==
    \A w \in Waiters : Overdue(w) ~> (jw[w] = "ok" \/ ~alive)

\* C1, amended: whenever the call of a job_wait was accepted and the signal
\* of its job has been emitted, that job_wait eventually returns Ok, unless
\* the other arm of try_join! fails first, which drops it unfinished (as long
\* as the bus connection lasts).
C1_EventuallyOk ==
    \A w \in Waiters : Overdue(w) ~> (jw[w] = "ok" \/ Abandoned(w) \/ ~alive)

\* EnableAutomounting: the job has finished before its acknowledgment has
\* come: its signal waits in the stream, behind a foreign one and before
\* another.
C1_Witness ==
    /\ req = "EnableAutomounting"
    /\ jw[1] = "replying"
    /\ removed_stream[1] = <<NoiseJob(1), reply[1], NoiseJob(2)>>

\* C2: in every job_wait the JobRemoved stream exists before the start/stop
\* call is sent, and the call has been sent and acknowledged before any signal
\* is taken from the stream; the manager only ever receives the call of a
\* job_wait that holds its stream and has taken nothing from it, and the call
\* is the one the request stands for (stop automount and stop mount for
\* PrepareDisconnect, start automount for EnableAutomounting).
C2_SubscribeThenIssueThenDrain ==
    /\ [](\A w \in Waiters :
            /\ Issued(w) => subscribed[w]
            /\ consumed[w] # <<>> =>
                 \E i \in 1..Len(ops) :
                     /\ ops[i].intent = Len(handled)
                     /\ ops[i].job = job[w]
                     /\ ops[i].unit = Call(req, w).unit)
    /\ [][ops' # ops =>
            \E w \in Arms(req) :
                /\ jw[w] = "calling" /\ jw'[w] = "replying"
                /\ subscribed[w] /\ consumed[w] = <<>>
                /\ Len(ops') = Len(ops) + 1
                /\ ops'[Len(ops')].unit = Call(req, w).unit
                /\ ops'[Len(ops')].verb = Call(req, w).verb]_vars

\* Both stops of a PrepareDisconnect are with the manager, both streams
\* exist, and the first job_wait has started to take signals.
C2_Witness ==
    /\ req = "PrepareDisconnect"
    /\ Len(ops) = 2
    /\ ops[1].unit = "automount" /\ ops[1].verb = "stop"
    /\ ops[2].unit = "mount" /\ ops[2].verb = "stop"
    /\ subscribed[1] /\ subscribed[2]
    /\ consumed[1] # <<>>

\* C3: job_wait returns Ok exactly when it takes a signal carrying its own
\* job: every signal taken before it carries another job, a job_wait still
\* draining has taken no signal of its own job, and once it has returned it
\* takes nothing more.
C3_ReturnsOnOwnJobOnly ==
    /\ [](\A w \in Waiters :
            /\ jw[w] = "ok" =>
                 /\ Matched(w)
                 /\ \A i \in 1..(Len(consumed[w]) - 1) : consumed[w][i] # job[w]
            /\ jw[w] = "draining" =>
                 \A i \in 1..Len(consumed[w]) : consumed[w][i] # job[w])
    /\ [][\A w \in Waiters :
            /\ (jw[w] # "ok" /\ jw'[w] = "ok") =>
                 /\ jw[w] = "draining"
                 /\ consumed'[w] = Append(consumed[w], job[w])
            /\ jw[w] = "ok" => consumed'[w] \in {consumed[w], <<>>}]_vars

\* EnableAutomounting: two foreign signals were emitted while the stream
\* existed, and job_wait returned having taken the first of them and its own.
C3_Witness ==
    /\ req = "EnableAutomounting"
    /\ jw[1] = "ok"
    /\ noise = 2
    /\ consumed[1] = <<NoiseJob(1), job[1]>>

\* C4: the notice of a PrepareDisconnect is shown only when each of the two
\* job_wait futures has taken the signal of its own stop job.
C4_NoticeAfterBothMatched ==
    /\ (pc = "notify" /\ req = "PrepareDisconnect") => Matched(1) /\ Matched(2)
    /\ \A i \in 1..Len(notices) :
          notices[i].req = "PrepareDisconnect" => notices[i].matched = {1, 2}

\* The notice is about to be shown and the mount stop (second arm) finished
\* before the automount stop (first arm).
C4_Witness ==
    /\ pc = "notify" /\ req = "PrepareDisconnect"
    /\ consumed[1] = <<job[2], job[1]>>
    /\ consumed[2] = <<job[2]>>

\* The change streams as the loop finds them at a poll.
MountReady == mount_state_change > 0 \/ ~alive
AutomountReady == automount_state_change > 0 \/ ~alive

\* C5: a poll that takes a branch takes the mount stream if it is ready, else
\* the automount stream if it is ready, else the request channel; a
\* notification that is handled leaves the queued requests and the other
\* stream as they are.
C5_BiasedOrder ==
    [][(pc = "poll" /\ pc' # "poll") =>
         /\ MountReady =>
              /\ pc' \in {"mount_get", "panic"}
              /\ UNCHANGED <<events, automount_state_change>>
         /\ (~MountReady /\ AutomountReady) =>
              /\ pc' = "automount_get"
              /\ UNCHANGED <<events, mount_state_change>>
         /\ pc' = "auth" => (~MountReady /\ ~AutomountReady /\ events # events')
         /\ mount_state_change > 0 =>
              (pc' = "mount_get" /\ mount_state_change' = mount_state_change - 1)]_vars

\* A mount notification is being handled while an automount notification and
\* a request wait.
C5_Witness ==
    /\ pc = "mount_get"
    /\ automount_state_change > 0
    /\ events # <<>>

\* C6: from the dequeue of a request to its denial no step makes a call,
\* creates a stream, shows a notice or writes the states or the tray, and
\* the denial puts main back at the poll; every call the manager has
\* received belongs to a request that was approved, and there are no more
\* notices than approved requests.
C6_DenialHasNoEffect ==
    /\ [](\A i \in 1..Len(ops) : handled[ops[i].intent].auth = "yes")
    /\ [](Len(notices) <= Cardinality({i \in 1..Len(handled) : handled[i].auth = "yes"}))
    /\ [][(pc' = "auth" \/ (pc = "auth" /\ handled'[Len(handled)].auth = "no")) =>
            /\ pc = "auth" => pc' \in {"auth", "poll"}
            /\ UNCHANGED <<ops, notices, jw, subscribed, removed_stream, reply, job,
                           mount_state, automount_state, tray, updates,
                           next_job, running>>]_vars

\* A request was denied and the loop went on to handle the next request,
\* whose call reached the manager.
C6_Witness ==
    /\ Len(handled) = 2
    /\ handled[1].auth = "no"
    /\ handled[2].auth = "yes"
    /\ Len(ops) = 1 /\ ops[1].intent = 2

\* What the state model is said to do: the named tokens and their states.
NamedTokens ==
    {<<"mounted", "Mounted">>, <<"mounting-done", "Mounted">>,
     <<"mounting", "Mounting">>, <<"unmounting", "Unmounting">>,
     <<"dead", "Dead">>, <<"waiting", "Waiting">>, <<"running", "Running">>,
     <<"failed", "Failed">>}

\* The tokens with a state of their own.
Named(t) == \E p \in NamedTokens : p[1] = t

StateNamed(t) ==
    IF \E p \in NamedTokens : p[1] = t
    THEN (CHOOSE p \in NamedTokens : p[1] = t)[2]
    ELSE PANIC

\* The states the tokens of s stand for, one after the other.
StatesOf(s) == [i \in 1..Len(s) |-> StateNamed(s[i])]

\* Every notification of unit u has been handled and main is running.
Unhandled(u) == IF u = "mount" THEN mount_state_change ELSE automount_state_change
Quiet(u) == Unhandled(u) = 0 /\ pc # u \o "_get" /\ ~Stopped

\* The status of u has gone A, B, A for two different states A and B.
Alternated(u) ==
    LET c == StatesOf(hist[u])
    IN Len(c) = 3 /\ c[1] = c[3] /\ c[1] # c[2] /\ c[1] # PANIC /\ c[2] # PANIC

\* C7 as stated: no transition is pushed while the status of a unit stays the
\* same, and whenever its status has gone A, B, A and its notifications are
\* handled, exactly B and then A were pushed.
C7_Dedup_AsStated ==
    \A u \in Units :
        /\ Len(Collapse(StatesOf(hist[u]))) = 1 => updates[u] = <<>>
        /\ (Alternated(u) /\ Quiet(u)) =>
              updates[u] = <<StatesOf(hist[u])[2], StatesOf(hist[u])[3]>>

\* C7, amended: no transition is pushed while the status of a unit stays in
\* one state; and when every change of the unit was read by the loop before
\* the next change came, the transitions pushed are exactly the states the
\* unit went through, in order, consecutive repeats dropped (so B then A for
\* A, B, A).
C7_Dedup ==
    \A u \in Units :
        /\ Len(Collapse(StatesOf(hist[u]))) = 1 => updates[u] = <<>>
        /\ (Quiet(u) /\ ~overrun[u]) =>
              updates[u] = Tail(Collapse(StatesOf(hist[u])))

\* The automount unit went dead, waiting, dead, each change read before the
\* next, and Waiting then Dead were pushed.
C7_Witness ==
    /\ hist["automount"] = <<"dead", "waiting", "dead">>
    /\ ~overrun["automount"] /\ Quiet("automount")
    /\ updates["automount"] = <<"Waiting", "Dead">>

\* C8: the tray starts as the states of the two initial tokens; a step that
\* writes the memoized state or the tray field of a unit is the handling of a
\* notification of that unit, writes both to the same new state, pushes one
\* transition and leaves the other unit alone; no step of the handling of a
\* request writes any of them.  With both units dead at the start and the
\* automount unit gone to waiting, the tray shows (Dead, Waiting) after one
\* transition.
C8_OneUnitOneWrite ==
    /\ (tray.mount = StateNamed(sub_state["mount"])
          /\ tray.automount = StateNamed(sub_state["automount"])
          /\ mount_state = tray.mount /\ automount_state = tray.automount)
    /\ []((hist["mount"] = <<"dead">> /\ hist["automount"] = <<"dead", "waiting">>
            /\ Quiet("automount") /\ Quiet("mount"))
          => (/\ tray.mount = "Dead" /\ tray.automount = "Waiting"
              /\ updates["automount"] = <<"Waiting">> /\ updates["mount"] = <<>>))
    /\ [][/\ (mount_state' # mount_state \/ tray'.mount # tray.mount
                \/ updates'["mount"] # updates["mount"]) =>
               /\ pc = "mount_get" /\ pc' = "poll"
               /\ tray'.mount = mount_state'
               /\ updates'["mount"] = Append(updates["mount"], mount_state')
               /\ UNCHANGED <<automount_state, updates["automount"]>>
               /\ tray'.automount = tray.automount
          /\ (automount_state' # automount_state \/ tray'.automount # tray.automount
                \/ updates'["automount"] # updates["automount"]) =>
               /\ pc = "automount_get" /\ pc' = "poll"
               /\ tray'.automount = automount_state'
               /\ updates'["automount"] = Append(updates["automount"], automount_state')
               /\ UNCHANGED <<mount_state, updates["mount"]>>
               /\ tray'.mount = tray.mount
          /\ tray'.display_name = tray.display_name]_vars

\* Both units started dead, the automount unit went to waiting, and a request
\* has been handled to its notice since: the tray shows (Dead, Waiting).
C8_Witness ==
    /\ hist["mount"] = <<"dead">> /\ hist["automount"] = <<"dead", "waiting">>
    /\ tray.mount = "Dead" /\ tray.automount = "Waiting"
    /\ updates["automount"] = <<"Waiting">>
    /\ notices # <<>>

C10_Classify ==
    /\ pc \in {"read_automount", "poll"} =>
          Named(sub_state["mount"]) /\ mount_state = StateNamed(sub_state["mount"])
    /\ pc = "poll" =>
          /\ Named(sub_state["automount"])
          /\ automount_state = StateNamed(sub_state["automount"])
    /\ pc = "panic" =>
          \/ ~Named(sub_state["mount"]) /\ mount_state = "unset"
          \/ /\ mount_state = StateNamed(sub_state["mount"])
             /\ ~Named(sub_state["automount"]) /\ automount_state = "unset"
    /\ \A p \in NamedTokens : \A q \in NamedTokens :
          (p[2] = q[2] /\ p[1] # q[1]) => {p[1], q[1]} = {"mounted", "mounting-done"}

\* Startup went through with the alias for the mount unit and "running" for
\* the automount unit.
C10_Witness ==
    /\ pc = "poll"
    /\ sub_state["mount"] = "mounting-done" /\ mount_state = "Mounted"
    /\ sub_state["automount"] = "running" /\ automount_state = "Running"

\* C11: a job_wait whose start/stop call the manager refuses returns the
\* error as soon as the refusal arrives, having taken no signal from its
\* stream; main returns the error in the same step, no notice is shown once
\* a call has been refused, and after the error main handles nothing more:
\* no notification, no request, no call.
C11_RefusalIsFatal ==
    /\ [](\A w \in Waiters : jw[w] = "err" => (consumed[w] = <<>> /\ pc = "error"))
    /\ [][\A w \in Waiters :
            (alive /\ jw[w] = "replying" /\ reply[w] = -1 /\ jw'[w] # jw[w]) =>
                /\ jw'[w] \in {"err", "dropped"}
                /\ pc' = "error"
                /\ consumed[w] = <<>>
                /\ UNCHANGED <<consumed, notices>>]_vars
    /\ [][(\E i \in 1..Len(ops) : ops[i].job = -1) => notices' = notices]_vars
    /\ [][pc = "error" =>
            UNCHANGED <<mainVars, jw, updates, handled, ops, consumed, notices>>]_vars

\* The start of an EnableAutomounting was refused while the bus was up: main
\* has returned the error, with a mount notification and a request left
\* unhandled and no notice shown.
C11_Witness ==
    /\ pc = "error" /\ alive
    /\ req = "EnableAutomounting"
    /\ jw[1] = "err" /\ reply[1] = -1
    /\ mount_state_change > 0 /\ events # <<>>
    /\ notices = <<>>

\* C12: once a stop of a PrepareDisconnect has failed, main has returned the
\* error: the other job_wait is no longer polled (it returned before, or it
\* was dropped unfinished), no notice was or will be shown for the request,
\* the only calls made for it are stops, and nothing moves any more.
C12_PartialFailureAborts ==
    /\ []((req = "PrepareDisconnect" /\ \E w \in Waiters : jw[w] = "err") =>
            /\ pc = "error"
            /\ \A w \in Waiters : jw[w] \notin Pending
            /\ Len(notices) < Len(handled)
            /\ \A i \in 1..Len(ops) :
                  ops[i].intent = Len(handled) => ops[i].verb = "stop")
    /\ [][(req = "PrepareDisconnect" /\ pc = "join"
             /\ \E w \in Waiters : jw'[w] = "err") =>
            /\ \A v \in Waiters : jw[v] \in Pending => jw'[v] \in {"err", "dropped"}
            /\ UNCHANGED <<notices, ops>>]_vars
    /\ [][(req = "PrepareDisconnect" /\ \E w \in Waiters : jw[w] = "err") =>
            UNCHANGED <<pc, jw, ops, notices, consumed, next_job>>]_vars

\* The automount stop finished and was matched, the mount stop was refused:
\* main has returned the error.
C12_Witness ==
    /\ pc = "error" /\ alive
    /\ req = "PrepareDisconnect"
    /\ jw[1] = "ok" /\ jw[2] = "err"
    /\ reply[2] = -1

\* The automount stop was accepted and its job still runs when the refusal
\* of the mount stop ends the action.
C12_Pending ==
    /\ pc = "error" /\ alive
    /\ req = "PrepareDisconnect"
    /\ jw[1] = "dropped" /\ jw[2] = "err"
    /\ reply[1] \in running

\* C13: when the authorization call itself fails, main returns the error in
\* that step: the failed check is the last request ever dequeued (no retry,
\* no later request), no call is ever made for it, and after it no
\* notification is handled and nothing is shown.
C13_AuthFailureIsFatal ==
    /\ [](\A i \in 1..Len(handled) :
            handled[i].auth = "error" =>
                /\ i = Len(handled)
                /\ pc = "error"
                /\ \A k \in 1..Len(ops) : ops[k].intent # i
                /\ \A w \in Waiters : jw[w] = "none")
    /\ [][(handled # <<>> /\ handled[Len(handled)].auth = "error") =>
            UNCHANGED <<mainVars, jwVars, updates, handled, ops, notices>>]_vars
    /\ [][(pc = "auth" /\ pc' = "error") =>
            /\ handled'[Len(handled)].auth = "error"
            /\ UNCHANGED <<ops, notices, jw, events>>]_vars

\* The authorization call failed while the bus was up; a mount notification
\* and a second request are left unhandled.
C13_Witness ==
    /\ pc = "error" /\ alive
    /\ Len(handled) = 1 /\ handled[1].auth = "error"
    /\ mount_state_change > 0 /\ events # <<>>
    /\ ops = <<>>

\* C14: a job_wait that finds its stream ended before its own job's signal
\* does not return: the process stops with it, and nothing moves after a
\* stop; every job_wait that returned Ok took its own job's signal.  A
\* notification whose token has no state stops the process with the states,
\* the tray and the pushed transitions as they were; the states and the tray
\* only ever hold states, and a tray field is only ever written to the state
\* of the token read in that step.
C14_ProtocolViolationIsFatal ==
    /\ [](/\ {mount_state, automount_state, tray.mount, tray.automount} \subseteq States
          /\ \A w \in Waiters : jw[w] = "ok" => Matched(w))
    /\ [][/\ (pc = "mount_get" /\ pc' # pc /\ ~Named(sub_state["mount"])) =>
               /\ pc' = "panic"
               /\ UNCHANGED <<mount_state, automount_state, tray, updates>>
          /\ (pc = "automount_get" /\ pc' # pc /\ ~Named(sub_state["automount"])) =>
               /\ pc' = "panic"
               /\ UNCHANGED <<mount_state, automount_state, tray, updates>>
          /\ tray'.mount # tray.mount =>
               tray'.mount = StateNamed(sub_state["mount"])
          /\ tray'.automount # tray.automount =>
               tray'.automount = StateNamed(sub_state["automount"])
          /\ \A w \in Waiters :
               (jw[w] = "draining" /\ removed_stream[w] = <<>> /\ ~alive
                  /\ jw'[w] # jw[w]) =>
                    (jw'[w] = "dropped" /\ pc' \in {"panic", "error"})
          /\ pc \in {"panic", "error"} =>
               UNCHANGED <<mainVars, jwVars, updates, handled, ops, notices>>]_vars

\* The mount unit, shown as Mounted, reported a token without a state: the
\* process has stopped and the tray still shows Mounted.
C14_Witness ==
    /\ pc = "panic" /\ alive
    /\ hist["mount"] = <<"mounted", "bogus">>
    /\ mount_state = "Mounted" /\ tray.mount = "Mounted"
    /\ updates["mount"] = <<>>

\* The bus went down while a job_wait was waiting for the signal of its
\* accepted job: the process has stopped and the job_wait never returned.
C14_StreamEnded ==
    /\ pc = "panic" /\ ~alive
    /\ jw[1] = "dropped"
    /\ job[1] > 0 /\ job[1] \in running

\* C15: every notice shown has the display name (the second argument) as its
\* title.
C15_TitleIsDisplayName ==
    \A i \in 1..Len(notices) : notices[i].summary = display_name

\* main is between the dequeue of a request and the end of its handling.
InFlight == pc \in {"auth", "join", "wait", "notify"}

\* The tray shows a unit in another state than its current token stands for.
Stale ==
    \/ tray.mount # StateNamed(sub_state["mount"])
    \/ tray.automount # StateNamed(sub_state["automount"])

\* Unit u has a notification pending whose state the tray does not show.
Unreflected(u) ==
    /\ Unhandled(u) > 0
    /\ Named(sub_state[u])
    /\ StateNamed(sub_state[u]) # (IF u = "mount" THEN tray.mount ELSE tray.automount)

\* C16 as stated: a change notification that became ready while a request
\* was being handled has been handled (the tray shows its state) by the time
\* the notice of that request is shown.
C16_NoticeAfterReflect_AsStated ==
    [][notices' # notices => \A u \in Units : ~Unreflected(u)]_vars

\* C16, amended: while a request is being handled no notification is taken
\* from a change stream and neither the states nor the tray are written, so
\* a change that comes meanwhile stays pending past the notice; at the next
\* poll every pending notification is handled before another request is
\* dequeued (unless a stream has ended, which stops the process).
C16_ReflectAtNextPoll ==
    /\ [][InFlight =>
            /\ mount_state_change' >= mount_state_change
            /\ automount_state_change' >= automount_state_change
            /\ UNCHANGED <<mount_state, automount_state, tray, updates>>]_vars
    /\ [][Len(handled') > Len(handled) =>
            (pc = "poll" /\ mount_state_change = 0 /\ automount_state_change = 0)]_vars
    /\ [][(pc = "poll" /\ pc' # pc /\ mount_state_change + automount_state_change > 0) =>
            /\ pc' \in {"mount_get", "automount_get", "panic"}
            /\ events' = events]_vars

\* The notice of a PrepareDisconnect has been shown while the change of the
\* mount unit to dead is still waiting in its stream: the tray shows Mounted.
C16_Witness ==
    /\ pc = "poll" /\ alive
    /\ Len(notices) = 1 /\ notices[1].req = "PrepareDisconnect"
    /\ mount_state_change > 0
    /\ sub_state["mount"] = "dead" /\ tray.mount = "Mounted"
    /\ Stale

\* C17 as stated: no job_wait of a PrepareDisconnect takes signals from its
\* stream (or has returned) while the other has not yet sent its stop.
C17_BothIssuedBeforeDrain_AsStated ==
    req = "PrepareDisconnect" =>
        \A w \in Waiters : \A v \in Waiters \ {w} :
            jw[w] \in {"draining", "ok"} => jw[v] # "subscribing"

\* C17, amended: the two job_wait futures of a PrepareDisconnect are created
\* together, so whenever one of them awaits signals or has returned, the
\* other has at least been started (it is subscribing or further); each has
\* sent its own stop and had it accepted before it awaits signals; and the
\* notice waits for both to return.
C17_ForkJoin ==
    req = "PrepareDisconnect" =>
        /\ \A w \in Waiters : \A v \in Waiters \ {w} :
              jw[w] \in {"draining", "ok"} => jw[v] # "none"
        /\ \A w \in Waiters :
              jw[w] \in {"draining", "ok"} =>
                  \E i \in 1..Len(ops) :
                      /\ ops[i].intent = Len(handled)
                      /\ ops[i].unit = Call(req, w).unit
                      /\ ops[i].job = job[w]
        /\ pc = "notify" => \A w \in Waiters : jw[w] = "ok"

\* The first job_wait of a PrepareDisconnect has had its stop accepted and
\* acknowledged and awaits its signal while the second still waits for its
\* subscription: the mount stop has not been sent.
C17_Witness ==
    /\ req = "PrepareDisconnect" /\ pc = "join" /\ alive
    /\ jw[1] = "draining" /\ jw[2] = "subscribing"
    /\ Len(ops) = 1 /\ ops[1].unit = "automount"

\* The JobRemoved streams that exist.
Live == {w \in Waiters : subscribed[w]}

\* C18 as stated: at any time at most one JobRemoved subscription exists.
C18_SingleSubscription_AsStated == Cardinality(Live) <= 1

\* C18, amended: every job_wait holds a subscription of its own: a job_wait
\* whose call has been sent or that awaits signals owns a live stream,
\* streams exist only while an action awaits its jobs, an EnableAutomounting
\* has at most one and a PrepareDisconnect at most two, and a signal emitted
\* while two streams exist is queued in both, each job_wait picking out its
\* own job's.
C18_OneSubscriptionPerJobWait ==
    /\ [](/\ \A w \in Waiters : Issued(w) => subscribed[w]
          /\ \A w \in Waiters : subscribed[w] => (w \in Arms(req) /\ jw[w] \in Pending)
          /\ Live # {} => pc \in {"join", "wait"}
          /\ req = "EnableAutomounting" => Cardinality(Live) <= 1
          /\ Cardinality(Live) <= 2)
    /\ [][(Live = {1, 2} /\ running' # running /\ Cardinality(running') < Cardinality(running)) =>
            \E id \in running :
                /\ removed_stream'[1] = Append(removed_stream[1], id)
                /\ removed_stream'[2] = Append(removed_stream[2], id)]_vars

\* Both job_wait futures of a PrepareDisconnect hold a stream, and the signal
\* of the first stop job is queued in both.
C18_Witness ==
    /\ req = "PrepareDisconnect" /\ pc = "join"
    /\ Live = {1, 2}
    /\ reply[1] > 0
    /\ removed_stream[1] = <<reply[1]>>
    /\ removed_stream[2] = <<reply[1]>>

\* C19: while a request is being handled (from its dequeue to the end of its
\* notice) no other request is dequeued and no other authorization check is
\* started: the queue only grows, the request in hand and the list of
\* dequeued requests stay, apart from the answer to the one check.  A request
\* is only dequeued at the poll point, with no job_wait alive and no job of
\* an earlier request outstanding, so every outstanding job and every live
\* job_wait belongs to the request dequeued last.
C19_OneAtATime ==
    /\ [](/\ \A i \in 1..Len(ops) :
                ops[i].job \in running => ops[i].intent = Len(handled)
          /\ (\E w \in Waiters : jw[w] \in Pending) => pc \in {"join", "wait"}
          /\ Cardinality({i \in 1..Len(handled) : handled[i].auth = "asked"})
                = (IF pc = "auth" THEN 1 ELSE 0)
          /\ InFlight => handled[Len(handled)].req = req)
    /\ [][InFlight =>
            /\ Len(handled') = Len(handled)
            /\ req' = req
            /\ \E k \in 0..1 : SubSeq(events', 1, Len(events')  - k) = events
            /\ \A i \in 1..(Len(handled) - 1) : handled'[i] = handled[i]]_vars
    /\ [][Len(handled') > Len(handled) =>
            /\ pc = "poll" /\ pc' = "auth"
            /\ Len(handled') = Len(handled) + 1
            /\ running = {}
            /\ \A w \in Waiters : jw[w] = "none"]_vars

\* A PrepareDisconnect waits for its two accepted stop jobs while a second
\* request sits in the queue.
C19_Witness ==
    /\ pc = "join" /\ req = "PrepareDisconnect"
    /\ Len(handled) = 1
    /\ Cardinality(running) = 2
    /\ events = <<"EnableAutomounting">>

\* C20: the tray mirrors the memoized states (at the poll point and at every
\* other position of the loop), and the handling of a change notification
\* that returns to the poll point leaves the memoized state and the tray
\* field of that unit at the state of the token it read.
C20_TrayMirrorsTracker ==
    /\ [](tray.mount = mount_state /\ tray.automount = automount_state)
    /\ [][/\ (pc = "mount_get" /\ pc' = "poll") =>
               /\ mount_state' = StateNamed(sub_state["mount"])
               /\ tray'.mount = StateNamed(sub_state["mount"])
          /\ (pc = "automount_get" /\ pc' = "poll") =>
               /\ automount_state' = StateNamed(sub_state["automount"])
               /\ tray'.automount = StateNamed(sub_state["automount"])]_vars

\* Both units have changed state and both changes were handled: main is at
\* the poll point with the tray showing (Mounted, Waiting) from (Dead, Dead).
C20_Witness ==
    /\ pc = "poll"
    /\ updates["mount"] = <<"Mounted">> /\ updates["automount"] = <<"Waiting">>
    /\ mount_state = "Mounted" /\ automount_state = "Waiting"
    /\ tray.mount = "Mounted" /\ tray.automount = "Waiting"

=============================================================================
